---------------------------- MODULE Spec2Model ----------------------------
(***************************************************************************)
(* Two dashboards over one activity export ("SOURCING & EARLY STAGE        *)
(* METRICS.csv"):                                                          *)
(*   - CANDIDATE PIPELINE CONVERSIONS (src/unnamed/part_000): the          *)
(*     folder-transition metrics, variables cp_*;                          *)
(*   - TALENTPOOL BREAKDOWN (src/Talent-pool-breakdown.py): the latest-    *)
(*     activity classifier and the time-band pivot, variables tp_*.        *)
(* Timestamps are whole hours since an epoch; NaT/NaN are the missing      *)
(* values pandas produces.  Strings are TLA+ strings, so strip() and       *)
(* lower() are computed character by character.                            *)
(***************************************************************************)
EXTENDS Integers, Sequences, FiniteSets, TLC

VARIABLES
    csv,                \* rows of the export file, in file order
    cp_pc,              \* the conversions script: "start", "stopped" (st.stop()) or "done"
    cp_original,        \* part_000:24-33, the loaded table with the CLEAN columns
    cp_widgets,         \* part_000:59-74, date range and multiselect values
    cp_filtered,        \* part_000:78-87
    cp_precalc,         \* part_000:93-106, total ids, unengaged set, start times
    summary_data,       \* part_000:217-229, one result per metric
    metric_frames,      \* the locals of each compute_metric_optimized call at its return
    cp_message,         \* the st.warning / st.error / st.info shown, or "none"
    tp_pc,              \* the breakdown script: "start" or "done"
    now,                \* datetime.now() of the render
    tp_widgets,         \* Talent-pool-breakdown.py:61-92
    filtered_tp,        \* Talent-pool-breakdown.py:99-104
    latest_activity,    \* Talent-pool-breakdown.py:108-140, one labelled row per candidate
    data_for_download,  \* Talent-pool-breakdown.py:143-146
    pivot_table_time,   \* Talent-pool-breakdown.py:162-174
    tp_message,         \* the st.warning shown, or "none"
    call_total_cids,    \* a direct call of compute_metric_optimized: its total_cids
    call_result,        \* ... and the dict it returned, <<>> before the call
    probe_date,         \* a direct call of get_time_bucket: its activity_date
    probe_bucket        \* ... and the band it returned, "pending" before the call

cp_vars == <<cp_pc, cp_original, cp_widgets, cp_filtered, cp_precalc,
             summary_data, metric_frames, cp_message>>

tp_vars == <<tp_pc, now, tp_widgets, filtered_tp, latest_activity, data_for_download,
             pivot_table_time, tp_message>>

fn_vars == <<call_total_cids, call_result, probe_date, probe_bucket>>

vars == <<csv, cp_vars, tp_vars, fn_vars>>

---------------------------------------------------------------------------
(* Missing values and units *)

\* pandas' missing timestamp (errors='coerce'); every real timestamp is >= 0
NaT == -1
\* pandas' missing string cell: read_csv parses the text NaN as missing
NaN == "NaN"
\* hours in a day: Timedelta.days counts whole 24-hour days
Day == 24

MaxRows == 2

---------------------------------------------------------------------------
(* str.strip() and str.lower() *)

UpperCase == <<"A","B","C","D","E","F","G","H","I","J","K","L","M",
               "N","O","P","Q","R","S","T","U","V","W","X","Y","Z">>
LowerCase == <<"a","b","c","d","e","f","g","h","i","j","k","l","m",
               "n","o","p","q","r","s","t","u","v","w","x","y","z">>

\* the upper-case letters and their lower-case forms
UpperToLower ==
    [c \in { UpperCase[i] : i \in 1..26 } |-> LowerCase[CHOOSE i \in 1..26 : UpperCase[i] = c]]

LowerChar(c) == IF c \in DOMAIN UpperToLower THEN UpperToLower[c] ELSE c

RECURSIVE StrLower(_)
StrLower(s) ==
    IF Len(s) = 0 THEN ""
    ELSE LowerChar(SubSeq(s, 1, 1)) \o StrLower(SubSeq(s, 2, Len(s)))

IsSpace(c) == c \in {" ", "\t", "\n"}

RECURSIVE LStrip(_)
LStrip(s) ==
    IF Len(s) > 0 /\ IsSpace(SubSeq(s, 1, 1))
    THEN LStrip(SubSeq(s, 2, Len(s)))
    ELSE s

RECURSIVE RStrip(_)
RStrip(s) ==
    IF Len(s) > 0 /\ IsSpace(SubSeq(s, Len(s), Len(s)))
    THEN RStrip(SubSeq(s, 1, Len(s) - 1))
    ELSE s

StrStrip(s) == RStrip(LStrip(s))

\* .fillna('').str.strip().str.lower()
CleanTitle(s) == IF s = NaN THEN "" ELSE StrLower(StrStrip(s))

---------------------------------------------------------------------------
(* The export file *)

\* the candidates (CAMPAIGNINVITATIONID) that occur in the export
CandidateIds == {1, 2}
\* an empty CAMPAIGNINVITATIONID cell, which read_csv parses as NaN; every real id is >= 1
NullId == 0

\* per-invitation columns: one invitation has one date, one site, one campaign; a row
\* without an id carries the columns of the first invitation
InvitationOf(cid) == IF cid = NullId THEN 9 ELSE (cid - 1) * Day + 9
SiteOf(cid) == IF cid = NullId \/ cid % 2 = 1 THEN "Manila" ELSE "Cebu"
TitleOf(cid) == "Customer Service Agent"

CsvRow(cid, at, from, to, reason) ==
    [CAMPAIGNINVITATIONID |-> cid,
     INVITATIONDT         |-> InvitationOf(cid),
     ACTIVITY_CREATED_AT  |-> at,
     FOLDER_FROM_TITLE    |-> from,
     FOLDER_TO_TITLE      |-> to,
     CAMPAIGN_SITE        |-> SiteOf(cid),
     CAMPAIGNTITLE        |-> TitleOf(cid),
     FAILED_REASON        |-> reason]

\* all files of at most n rows over the row set S
RECURSIVE FilesOver(_, _)
FilesOver(S, n) ==
    IF n = 0 THEN {<<>>}
    ELSE LET shorter == FilesOver(S, n - 1)
         IN  shorter \cup {Append(f, r) : f \in {g \in shorter : Len(g) = n - 1}, r \in S}

\* folder moves and activity times of the conversions runs
CPMoves == { <<NaN, "Talent Pool">>,
             <<"Inbox", "Talent Pool">>,
             <<"Talent Pool", "Shortlisted">>,
             <<" talent pool", "Acme Corp">>,
             <<"Acme Corp", "SHORTLISTED ">> }
CPTimes == {NaT, 0, 72}
CPRows ==
    { CsvRow(c, t, m[1], m[2], NaN) : c \in CandidateIds, t \in CPTimes, m \in CPMoves }
        \cup { CsvRow(NullId, 0, "Inbox", "Talent Pool", NaN) }

---------------------------------------------------------------------------
(* CANDIDATE PIPELINE CONVERSIONS: src/unnamed/part_000 *)

SYSTEM_FOLDERS_CONVERSIONS ==
    { "Inbox", "Unresponsive", "Completed", "Unresponsive Talkscore", "Passed MQ", "Failed MQ",
      "TalkScore Retake", "Unresponsive Talkscore Retake", "Failed TalkScore", "Cold Leads",
      "Cold Leads Talkscore", "Cold Leads Talkscore Retake", "On hold", "Rejected",
      "Talent Pool", "Shortlisted", "Hired",
      "Candidate Databank", "For Talkscore", "Tier 2 Program", "Tier 1 Program", "For Versant",
      "For Reengagement" }

SYSTEM_FOLDERS_LOWER == { StrLower(s) : s \in SYSTEM_FOLDERS_CONVERSIONS }

Indices(df) == 1..Len(df)

\* df[mask]: the rows of df, in order, whose entry in the boolean series mask is TRUE
SelectRows(df, mask) ==
    LET F[i \in 0..Len(df)] ==
            IF i = 0 THEN <<>>
            ELSE IF mask[i] THEN Append(F[i - 1], df[i]) ELSE F[i - 1]
    IN  F[Len(df)]

\* df[col].unique() of the id column: NaN is one of the values
UniqueIds(df) == { df[i].CAMPAIGNINVITATIONID : i \in Indices(df) }

\* the keys of df.groupby('CAMPAIGNINVITATIONID'): rows with a NaN key are dropped
GroupKeys(df) == UniqueIds(df) \ {NullId}

\* the non-missing timestamps of candidate cid in df
TimesOf(df, cid) ==
    { df[i].ACTIVITY_CREATED_AT : i \in { j \in Indices(df) :
          df[j].CAMPAIGNINVITATIONID = cid /\ df[j].ACTIVITY_CREATED_AT # NaT } }

SetMax(S) == CHOOSE x \in S : \A y \in S : y <= x
SetMin(S) == CHOOSE x \in S : \A y \in S : x <= y

\* groupby('CAMPAIGNINVITATIONID')['ACTIVITY_CREATED_AT'].max().to_dict(): NaT for a
\* group with no valid timestamp
GroupMax(df) ==
    [cid \in GroupKeys(df) |-> IF TimesOf(df, cid) = {} THEN NaT ELSE SetMax(TimesOf(df, cid))]
GroupMin(df) ==
    [cid \in GroupKeys(df) |-> IF TimesOf(df, cid) = {} THEN NaT ELSE SetMin(TimesOf(df, cid))]

\* dict.get(cid, pd.NaT)
DictGet(d, cid) == IF cid \in DOMAIN d THEN d[cid] ELSE NaT

\* part_000:32-33
WithCleanTitles(row) ==
    [CAMPAIGNINVITATIONID    |-> row.CAMPAIGNINVITATIONID,
     INVITATIONDT            |-> row.INVITATIONDT,
     ACTIVITY_CREATED_AT     |-> row.ACTIVITY_CREATED_AT,
     FOLDER_FROM_TITLE       |-> row.FOLDER_FROM_TITLE,
     FOLDER_TO_TITLE         |-> row.FOLDER_TO_TITLE,
     CAMPAIGN_SITE           |-> row.CAMPAIGN_SITE,
     CAMPAIGNTITLE           |-> row.CAMPAIGNTITLE,
     FAILED_REASON           |-> row.FAILED_REASON,
     FOLDER_FROM_TITLE_CLEAN |-> CleanTitle(row.FOLDER_FROM_TITLE),
     FOLDER_TO_TITLE_CLEAN   |-> CleanTitle(row.FOLDER_TO_TITLE)]

\* valid_invitation_dates, part_000:46
valid_invitation_dates(df) ==
    { df[i].INVITATIONDT : i \in { j \in Indices(df) : df[j].INVITATIONDT # NaT } }

\* Timestamp.date(), as a day number
DateOf(t) == t \div Day

\* f"{num/den:.<decimals>f}": the quotient rounded to the nearest multiple of
\* 10^-decimals, an exact tie going to the even digit
RoundHalfEven(num, den) ==
    LET q == num \div den
        r == num % den
    IN  IF 2 * r < den THEN q
        ELSE IF 2 * r > den THEN q + 1
        ELSE IF q % 2 = 0 THEN q ELSE q + 1

RECURSIVE ZeroPad(_, _)
ZeroPad(n, width) ==
    IF width = 0 THEN "" ELSE ZeroPad(n \div 10, width - 1) \o ToString(n % 10)

FormatFixed(num, den, decimals) ==
    LET scale == 10 ^ decimals
        h     == RoundHalfEven(num * scale, den)
    IN  ToString(h \div scale) \o "." \o ZeroPad(h % scale, decimals)

RECURSIVE SumOf(_)
SumOf(f) ==
    IF DOMAIN f = {} THEN 0
    ELSE LET k == CHOOSE x \in DOMAIN f : TRUE
         IN  f[k] + SumOf([x \in DOMAIN f \ {k} |-> f[x]])

\* part_000:99, sort_values(['CAMPAIGNINVITATIONID', 'ACTIVITY_CREATED_AT']): by id, then
\* by timestamp, the missing values of either column last; rows with equal keys keep
\* their order
SortsBefore(a, b) ==
    \/ /\ a.CAMPAIGNINVITATIONID # NullId
       /\ \/ b.CAMPAIGNINVITATIONID = NullId
          \/ a.CAMPAIGNINVITATIONID < b.CAMPAIGNINVITATIONID
    \/ /\ a.CAMPAIGNINVITATIONID = b.CAMPAIGNINVITATIONID
       /\ a.ACTIVITY_CREATED_AT # NaT
       /\ (b.ACTIVITY_CREATED_AT = NaT \/ a.ACTIVITY_CREATED_AT < b.ACTIVITY_CREATED_AT)

InsertSorted(sorted, r) ==
    LET k == Cardinality({ i \in Indices(sorted) : ~SortsBefore(r, sorted[i]) })
    IN  SubSeq(sorted, 1, k) \o <<r>> \o SubSeq(sorted, k + 1, Len(sorted))

sort_values(df) ==
    LET F[i \in 0..Len(df)] == IF i = 0 THEN <<>> ELSE InsertSorted(F[i - 1], df[i])
    IN  F[Len(df)]

\* part_000:100, Series.diff(): <<d>> for a difference of d hours, <<>> for NaT (the
\* first row, or a missing timestamp on either side)
time_diffs(cp_sorted) ==
    [i \in Indices(cp_sorted) |->
        IF i = 1 \/ cp_sorted[i].ACTIVITY_CREATED_AT = NaT
                 \/ cp_sorted[i - 1].ACTIVITY_CREATED_AT = NaT
        THEN <<>>
        ELSE <<cp_sorted[i].ACTIVITY_CREATED_AT - cp_sorted[i - 1].ACTIVITY_CREATED_AT>>]

\* a variant without the same-candidate test: every row continues the row before it
is_same_candidate_always(cp_sorted) == [i \in Indices(cp_sorted) |-> i > 1]

\* part_000:101, the row's id equals the id of the row before it (shift(1)); NaN equals
\* nothing, itself included
is_same_candidate(cp_sorted) ==
    [i \in Indices(cp_sorted) |->
        /\ i > 1
        /\ cp_sorted[i].CAMPAIGNINVITATIONID # NullId
        /\ cp_sorted[i].CAMPAIGNINVITATIONID = cp_sorted[i - 1].CAMPAIGNINVITATIONID]

\* part_000:102
unengaged_mask(cp_sorted) ==
    [i \in Indices(cp_sorted) |->
        /\ time_diffs(cp_sorted)[i] # <<>>
        /\ time_diffs(cp_sorted)[i][1] > 7 * Day
        /\ is_same_candidate(cp_sorted)[i]]

\* part_000:99-103
unengaged_cids_set(df) ==
    LET cp_sorted == sort_values(df)
    IN  { cp_sorted[i].CAMPAIGNINVITATIONID :
            i \in { j \in Indices(cp_sorted) : unengaged_mask(cp_sorted)[j] } }

\* a variant that takes each candidate's latest timestamp as its start
absolute_start_times_latest(df) == GroupMax(df)

\* part_000:106
absolute_start_times(df) == GroupMin(df)

\* part_000:93, nunique(): the distinct ids, NaN not counted
total_unique_ids_for_percentage(df) == Cardinality(UniqueIds(df) \ {NullId})

---------------------------------------------------------------------------
(* compute_metric_optimized, part_000:109-195 *)

\* part_000:128, 133, 160: a normalized title that is non-empty and no system folder
is_client_folder(clean) == clean \notin SYSTEM_FOLDERS_LOWER /\ clean # ""

\* part_000:125-130
from_mask(df, from_cond_lower) ==
    [i \in Indices(df) |->
        IF from_cond_lower = "any" THEN df[i].FOLDER_FROM_TITLE # NaN
        ELSE IF from_cond_lower = "client folder"
             THEN is_client_folder(df[i].FOLDER_FROM_TITLE_CLEAN)
             ELSE df[i].FOLDER_FROM_TITLE_CLEAN = from_cond_lower]

\* part_000:132-135
to_mask(df, to_cond_lower) ==
    [i \in Indices(df) |->
        IF to_cond_lower = "client folder"
        THEN is_client_folder(df[i].FOLDER_TO_TITLE_CLEAN)
        ELSE df[i].FOLDER_TO_TITLE_CLEAN = to_cond_lower]

\* a variant that takes the start time from the rows that move a candidate OUT of the
\* from-stage
from_time_mask_by_source(df, from_cond_lower) ==
    [i \in Indices(df) |->
        IF from_cond_lower = "client folder"
        THEN is_client_folder(df[i].FOLDER_FROM_TITLE_CLEAN)
        ELSE df[i].FOLDER_FROM_TITLE_CLEAN = from_cond_lower]

\* part_000:159-162: the rows that move a candidate INTO the from-stage
from_time_mask(df, from_cond_lower) ==
    [i \in Indices(df) |->
        IF from_cond_lower = "client folder"
        THEN is_client_folder(df[i].FOLDER_TO_TITLE_CLEAN)
        ELSE df[i].FOLDER_TO_TITLE_CLEAN = from_cond_lower]

\* a variant that takes the two conditions from any rows of the candidate, not from one
cids_with_transition_across_rows(df, from_cond_lower, to_cond_lower) ==
    { df[i].CAMPAIGNINVITATIONID : i \in { j \in Indices(df) : from_mask(df, from_cond_lower)[j] } }
        \cap { df[i].CAMPAIGNINVITATIONID : i \in { j \in Indices(df) : to_mask(df, to_cond_lower)[j] } }

\* part_000:137-138, set(... .unique()): NaN is a member when a matching row has no id
cids_with_transition(df, from_cond_lower, to_cond_lower) ==
    { df[i].CAMPAIGNINVITATIONID :
        i \in { j \in Indices(df) :
                  from_mask(df, from_cond_lower)[j] /\ to_mask(df, to_cond_lower)[j] } }

\* a variant that cuts the percentage off after two decimals
percentage_truncated(count, total_cids) ==
    IF total_cids = 0 THEN "0.00"
    ELSE LET h == (count * 10000) \div total_cids
         IN  ToString(h \div 100) \o "." \o ZeroPad(h % 100, 2)

\* part_000:141-144
percentage(count, total_cids) ==
    IF total_cids = 0 THEN "0.00" ELSE FormatFixed(count * 100, total_cids, 2)

\* a variant that does not compare the two times
duration_is_valid_unordered(from_time, to_time) == from_time # NaT /\ to_time # NaT

\* part_000:179
duration_is_valid(from_time, to_time) ==
    from_time # NaT /\ to_time # NaT /\ to_time >= from_time

\* part_000:180, Timedelta.days
delta_days(from_time, to_time) == (to_time - from_time) \div Day

\* part_000:185-186
average_display(durations) ==
    IF DOMAIN durations = {} THEN "N/A"
    ELSE FormatFixed(SumOf(durations), Cardinality(DOMAIN durations), 1)

\* the locals of one call at its return; the two duration lists are kept by candidate
MetricFrame(df, from_condition, to_condition, total_cids, unengaged_cids, app_start_times) ==
    LET from_cond_lower == StrLower(StrStrip(from_condition))
        to_cond_lower   == StrLower(StrStrip(to_condition))
        cids   == cids_with_transition(df, from_cond_lower, to_cond_lower)
        unengaged_in_this_metric == cids \cap unengaged_cids
        engaged_in_this_metric   == cids \ unengaged_in_this_metric
        relevant_from_times ==
            SelectRows(df, [i \in Indices(df) |->
                df[i].CAMPAIGNINVITATIONID \in cids /\ from_time_mask(df, from_cond_lower)[i]])
        from_times_per_cid ==
            IF from_cond_lower = "any" THEN app_start_times ELSE GroupMax(relevant_from_times)
        relevant_to_times ==
            SelectRows(df, [i \in Indices(df) |->
                df[i].CAMPAIGNINVITATIONID \in cids /\ to_mask(df, to_cond_lower)[i]])
        to_times_per_cid == GroupMax(relevant_to_times)
        timed == { cid \in cids : duration_is_valid(DictGet(from_times_per_cid, cid),
                                                    DictGet(to_times_per_cid, cid)) }
    IN  [from_cond_lower              |-> from_cond_lower,
         to_cond_lower                |-> to_cond_lower,
         total_cids                   |-> total_cids,
         cids_with_transition         |-> cids,
         unengaged_in_this_metric     |-> unengaged_in_this_metric,
         engaged_in_this_metric       |-> engaged_in_this_metric,
         from_times_per_cid           |-> from_times_per_cid,
         to_times_per_cid             |-> to_times_per_cid,
         avg_durations                |->
             [cid \in timed |-> delta_days(DictGet(from_times_per_cid, cid),
                                           DictGet(to_times_per_cid, cid))],
         avg_time_threshold_durations |->
             [cid \in timed \cap engaged_in_this_metric |->
                 delta_days(DictGet(from_times_per_cid, cid),
                            DictGet(to_times_per_cid, cid))]]

\* a variant whose threshold average runs over the durations of all candidates
MetricResult_threshold_over_all(metric_title, frame) ==
    [Metric                     |-> metric_title,
     Count                      |-> Cardinality(frame.cids_with_transition),
     Percentage                 |-> percentage(Cardinality(frame.cids_with_transition),
                                               frame.total_cids),
     Avg_Time_In_Days           |-> average_display(frame.avg_durations),
     Avg_Time_Threshold         |-> average_display(frame.avg_durations),
     Unengaged_Candidates_Count |-> Cardinality(frame.unengaged_in_this_metric)]

\* the returned dict, part_000:188-195, from the locals
MetricResult(metric_title, frame) ==
    [Metric                     |-> metric_title,
     Count                      |-> Cardinality(frame.cids_with_transition),
     Percentage                 |-> percentage(Cardinality(frame.cids_with_transition),
                                               frame.total_cids),
     Avg_Time_In_Days           |-> average_display(frame.avg_durations),
     Avg_Time_Threshold         |-> average_display(frame.avg_time_threshold_durations),
     Unengaged_Candidates_Count |-> Cardinality(frame.unengaged_in_this_metric)]

compute_metric_optimized(df, metric_title, from_condition, to_condition, total_cids, unengaged_cids, app_start_times) ==
    MetricResult(metric_title,
                 MetricFrame(df, from_condition, to_condition,
                             total_cids, unengaged_cids, app_start_times))

\* part_000:202-215
metrics_to_run ==
    << <<"Application to Completed", "Any", "Completed">>,
       <<"Application to Passed Prescreening", "Any", "Passed MQ">>,
       <<"Passed Prescreening to Talent Pool", "Passed MQ", "Talent Pool">>,
       <<"Application to Talent Pool", "Any", "Talent Pool">>,
       <<"Application to Client Folder", "Any", "Client Folder">>,
       <<"Application to Shortlisted", "Any", "Shortlisted">>,
       <<"Application to Hired", "Any", "Hired">>,
       <<"Talent Pool to Client Folder", "Talent Pool", "Client Folder">>,
       <<"Talent Pool to Shortlisted", "Talent Pool", "Shortlisted">>,
       <<"Client Folder to Shortlisted", "Client Folder", "Shortlisted">>,
       <<"Shortlisted to Hired", "Shortlisted", "Hired">>,
       <<"Shortlisted to Rejected", "Shortlisted", "Rejected">> >>

---------------------------------------------------------------------------
(* The conversions script, top to bottom: one run is one render *)

NoWidgets == [start_date_val |-> 0, end_date_val |-> 0,
              selected_worklocations |-> {}, selected_campaigns |-> {}]
NoPrecalc == [total_unique_ids_for_percentage |-> 0,
              unengaged_cids_set |-> {},
              absolute_start_times |-> <<>>]

\* part_000:24-33
LoadConversions(file) == [i \in Indices(file) |-> WithCleanTitles(file[i])]

\* part_000:36-55: the script goes on past the load
Loadable(file) == file # <<>> /\ valid_invitation_dates(file) # {}

\* part_000:51-74: the values the user leaves in the widgets: the whole date range
\* [min_date, max_date] with nothing picked in the two multiselects (their default),
\* and the whole range or its last day alone with the first site and the campaign
WidgetChoices(df) ==
    LET min_date == DateOf(SetMin(valid_invitation_dates(df)))
        max_date == DateOf(SetMax(valid_invitation_dates(df)))
        unique_worklocations == { df[i].CAMPAIGN_SITE : i \in Indices(df) } \ {NaN}
        unique_campaigns     == { df[i].CAMPAIGNTITLE : i \in Indices(df) } \ {NaN}
    IN  { [start_date_val |-> min_date, end_date_val |-> max_date,
           selected_worklocations |-> {}, selected_campaigns |-> {}],
          [start_date_val |-> min_date, end_date_val |-> max_date,
           selected_worklocations |-> {"Manila"} \cap unique_worklocations,
           selected_campaigns |-> {"Customer Service Agent"} \cap unique_campaigns],
          [start_date_val |-> max_date, end_date_val |-> max_date,
           selected_worklocations |-> {"Manila"} \cap unique_worklocations,
           selected_campaigns |-> {"Customer Service Agent"} \cap unique_campaigns] }

\* part_000:65-87
FilterConversions(df, w) ==
    LET start_datetime == w.start_date_val * Day
        end_datetime   == w.end_date_val * Day + Day
        in_range == [i \in Indices(df) |->
                        /\ df[i].INVITATIONDT # NaT
                        /\ df[i].INVITATIONDT >= start_datetime
                        /\ df[i].INVITATIONDT < end_datetime]
        by_date == SelectRows(df, in_range)
        by_site == IF w.selected_worklocations # {}
                   THEN SelectRows(by_date, [i \in Indices(by_date) |->
                            by_date[i].CAMPAIGN_SITE \in w.selected_worklocations])
                   ELSE by_date
    IN  IF w.selected_campaigns # {}
        THEN SelectRows(by_site, [i \in Indices(by_site) |->
                 by_site[i].CAMPAIGNTITLE \in w.selected_campaigns])
        ELSE by_site

\* part_000:221, df=cp_filtered: the table the metrics are computed over
metrics_df(original, filtered) == filtered

\* part_000:36-38, 46-49: st.stop() on an empty table or on a table without any valid
\* invitation date
StopAtLoad ==
    /\ cp_pc = "start"
    /\ ~Loadable(csv)
    /\ cp_original' = LoadConversions(csv)
    /\ cp_message' = IF csv = <<>>
                     THEN "The data file is empty or could not be processed."
                     ELSE "No valid INVITATIONDT values available in the data."
    /\ cp_pc' = "stopped"
    /\ UNCHANGED <<csv, cp_widgets, cp_filtered, cp_precalc, summary_data, metric_frames>>
    /\ UNCHANGED <<tp_vars, fn_vars>>

\* a variant without st.stop(): the run goes on through the pre-calculation, finds no
\* id to count and ends with the message of the last branch
StopAtFilterAndGoOn ==
    /\ cp_pc = "start"
    /\ Loadable(csv)
    /\ cp_original' = LoadConversions(csv)
    /\ \E w \in WidgetChoices(cp_original') :
        /\ cp_widgets' = w
        /\ cp_filtered' = FilterConversions(cp_original', w)
    /\ cp_filtered' = <<>>
    /\ cp_precalc' = [total_unique_ids_for_percentage |-> 0,
                      unengaged_cids_set |-> {},
                      absolute_start_times |-> <<>>]
    /\ cp_message' = "No data to compute metrics after filtering."
    /\ cp_pc' = "done"
    /\ UNCHANGED <<csv, summary_data, metric_frames>>
    /\ UNCHANGED <<tp_vars, fn_vars>>

\* part_000:89-91: st.stop() when nothing is left after the filters
StopAtFilter ==
    /\ cp_pc = "start"
    /\ Loadable(csv)
    /\ cp_original' = LoadConversions(csv)
    /\ \E w \in WidgetChoices(cp_original') :
        /\ cp_widgets' = w
        /\ cp_filtered' = FilterConversions(cp_original', w)
    /\ cp_filtered' = <<>>
    /\ cp_message' = "No data matches the current filter criteria."
    /\ cp_pc' = "stopped"
    /\ UNCHANGED <<csv, cp_precalc, summary_data, metric_frames>>
    /\ UNCHANGED <<tp_vars, fn_vars>>

\* part_000:93-234: the pre-calculation block and the twelve metrics
ShowMetrics ==
    /\ cp_pc = "start"
    /\ Loadable(csv)
    /\ cp_original' = LoadConversions(csv)
    /\ \E w \in WidgetChoices(cp_original') :
        /\ cp_widgets' = w
        /\ cp_filtered' = FilterConversions(cp_original', w)
    /\ cp_filtered' # <<>>
    /\ LET total     == total_unique_ids_for_percentage(cp_filtered')
           unengaged == unengaged_cids_set(cp_filtered')
           starts    == absolute_start_times(cp_filtered')
       IN  /\ cp_precalc' = [total_unique_ids_for_percentage |-> total,
                             unengaged_cids_set |-> unengaged,
                             absolute_start_times |-> starts]
           /\ IF total > 0
              THEN /\ metric_frames' =
                        [k \in DOMAIN metrics_to_run |->
                            MetricFrame(metrics_df(cp_original', cp_filtered'),
                                        metrics_to_run[k][2], metrics_to_run[k][3],
                                        total, unengaged, starts)]
                   /\ summary_data' =
                        [k \in DOMAIN metrics_to_run |->
                            MetricResult(metrics_to_run[k][1], metric_frames'[k])]
                   /\ cp_message' = cp_message
              ELSE /\ cp_message' = "No data to compute metrics after filtering."
                   /\ UNCHANGED <<summary_data, metric_frames>>
    /\ cp_pc' = "done"
    /\ UNCHANGED <<csv, tp_vars, fn_vars>>

CPInit ==
    /\ cp_pc = "start"
    /\ cp_original = <<>>
    /\ cp_widgets = NoWidgets
    /\ cp_filtered = <<>>
    /\ cp_precalc = NoPrecalc
    /\ summary_data = <<>>
    /\ metric_frames = <<>>
    /\ cp_message = "none"

---------------------------------------------------------------------------
(* TALENTPOOL BREAKDOWN: src/Talent-pool-breakdown.py *)

\* Talent-pool-breakdown.py:42-48
SYSTEM_FOLDERS ==
    { "", "Inbox", "Unresponsive", "Completed", "Unresponsive Talkscore", "Passed MQ", "Failed MQ",
      "TalkScore Retake", "Unresponsive Talkscore Retake", "Failed TalkScore", "Cold Leads",
      "Cold Leads Talkscore", "Cold Leads Talkscore Retake", "On hold", "Rejected",
      "Talent Pool", "Shortlisted", "Hired", "Candidate Databank", "For Talkscore",
      "Tier 2 Program", "Tier 1 Program", "For Versant", "For Reengagement" }

None == "None"

\* Talent-pool-breakdown.py:169-170
time_categories == <<"<24hrs", "1-3 days", "4-7 days", "8-15 days", "16-30 days", "31+ days">>
row_categories == <<"New (for endorsement)", "Rejected (for waterfall)",
                    "Candidate Databank (in Cooling Period)">>

\* Talent-pool-breakdown.py:23-27: rows without both dates are dropped at load
LoadBreakdown(file) ==
    SelectRows(file, [i \in Indices(file) |->
        file[i].INVITATIONDT # NaT /\ file[i].ACTIVITY_CREATED_AT # NaT])

\* Talent-pool-breakdown.py:54-92: the default date range (the last 30 days up to
\* max_date, not before min_date) with every site and title selected (the defaults), the
\* same with the first site alone, and the last day with no site selected
BreakdownChoices(tp) ==
    LET invitations == { tp[i].INVITATIONDT : i \in Indices(tp) }
        min_date == DateOf(SetMin(invitations))
        max_date == DateOf(SetMax(invitations))
        default_start_date == IF max_date - 30 < min_date THEN min_date ELSE max_date - 30
        unique_sites == { tp[i].CAMPAIGN_SITE : i \in Indices(tp) } \ {NaN}
        available_titles(sites) ==
            { tp[i].CAMPAIGNTITLE : i \in { j \in Indices(tp) : tp[j].CAMPAIGN_SITE \in sites } }
                \ {NaN}
    IN  { [start_date |-> default_start_date, end_date |-> max_date,
           selected_sites |-> unique_sites, selected_titles |-> available_titles(unique_sites)],
          [start_date |-> default_start_date, end_date |-> max_date,
           selected_sites |-> {"Manila"} \cap unique_sites,
           selected_titles |-> available_titles({"Manila"} \cap unique_sites)],
          [start_date |-> max_date, end_date |-> max_date,
           selected_sites |-> {}, selected_titles |-> {}] }

\* Talent-pool-breakdown.py:96-104: start_datetime is the first instant of start_date,
\* end_datetime the last instant of end_date
FilterBreakdown(tp, w) ==
    SelectRows(tp, [i \in Indices(tp) |->
        /\ tp[i].INVITATIONDT >= w.start_date * Day
        /\ tp[i].INVITATIONDT < w.end_date * Day + Day
        /\ tp[i].CAMPAIGN_SITE \in w.selected_sites
        /\ tp[i].CAMPAIGNTITLE \in w.selected_titles])

\* Talent-pool-breakdown.py:108, groupby(...)['ACTIVITY_CREATED_AT'].idxmax(): for each
\* candidate the first row, in table order, that holds its largest timestamp
idxmax(df, cid) ==
    LET rows == { i \in Indices(df) : df[i].CAMPAIGNINVITATIONID = cid }
        top  == SetMax({ df[i].ACTIVITY_CREATED_AT : i \in rows })
    IN  SetMin({ i \in rows : df[i].ACTIVITY_CREATED_AT = top })

\* the ids of df in ascending order, the order of a groupby's result
RECURSIVE SortedIds(_)
SortedIds(ids) ==
    IF ids = {} THEN <<>> ELSE <<SetMin(ids)>> \o SortedIds(ids \ {SetMin(ids)})

\* a variant that forgets notna(): a missing title counts as a client folder
is_client_title_without_notna(title) == title \notin SYSTEM_FOLDERS

\* Talent-pool-breakdown.py:110-115
is_client_title(title) == title # NaN /\ title \notin SYSTEM_FOLDERS

\* a variant that looks at each candidate's latest row only
ids_with_client_folder_in_latest_row(df) ==
    { cid \in UniqueIds(df) : \/ is_client_title(df[idxmax(df, cid)].FOLDER_FROM_TITLE)
                              \/ is_client_title(df[idxmax(df, cid)].FOLDER_TO_TITLE) }

ids_with_client_folder_history(df) ==
    { df[i].CAMPAIGNINVITATIONID :
        i \in { j \in Indices(df) : \/ is_client_title(df[j].FOLDER_FROM_TITLE)
                                    \/ is_client_title(df[j].FOLDER_TO_TITLE) } }

\* a variant that tests the rejection before the databank folder
get_row_label_rejection_first(row) ==
    IF row.in_client_folder /\ row.FAILED_REASON # NaN
    THEN "Rejected (for waterfall)"
    ELSE IF row.FOLDER_TO_TITLE = "Candidate Databank"
    THEN "Candidate Databank (in Cooling Period)"
    ELSE IF /\ row.FOLDER_TO_TITLE = "Talent Pool"
            /\ ~row.in_client_folder
            /\ row.FAILED_REASON = NaN
    THEN "New (for endorsement)"
    ELSE None

\* Talent-pool-breakdown.py:119-126
get_row_label(row) ==
    IF row.FOLDER_TO_TITLE = "Candidate Databank"
    THEN "Candidate Databank (in Cooling Period)"
    ELSE IF /\ row.FOLDER_TO_TITLE = "Talent Pool"
            /\ ~row.in_client_folder
            /\ row.FAILED_REASON = NaN
    THEN "New (for endorsement)"
    ELSE IF /\ row.in_client_folder
            /\ row.FOLDER_TO_TITLE # "Candidate Databank"
            /\ row.FAILED_REASON # NaN
    THEN "Rejected (for waterfall)"
    ELSE None

\* a variant whose first band is closed at one day
get_time_bucket_inclusive(activity_date, at) ==
    IF activity_date = NaT THEN None
    ELSE LET days == (at - activity_date) \div Day
         IN  IF days <= 1 THEN "<24hrs"
             ELSE IF days <= 3 THEN "1-3 days"
             ELSE IF days <= 7 THEN "4-7 days"
             ELSE IF days <= 15 THEN "8-15 days"
             ELSE IF days <= 30 THEN "16-30 days"
             ELSE "31+ days"

\* Talent-pool-breakdown.py:128-136; (datetime.now() - activity_date).days is the
\* floor of the age in days
get_time_bucket(activity_date, at) ==
    IF activity_date = NaT THEN None
    ELSE LET days == (at - activity_date) \div Day
         IN  IF days < 1 THEN "<24hrs"
             ELSE IF 1 <= days /\ days <= 3 THEN "1-3 days"
             ELSE IF 4 <= days /\ days <= 7 THEN "4-7 days"
             ELSE IF 8 <= days /\ days <= 15 THEN "8-15 days"
             ELSE IF 16 <= days /\ days <= 30 THEN "16-30 days"
             ELSE "31+ days"

\* a variant that keeps every event instead of the latest one per candidate
latest_rows_every_event(df) == df

\* Talent-pool-breakdown.py:108: one row per candidate, in the order of the ids
latest_rows(df) ==
    LET ids == SortedIds(UniqueIds(df))
    IN  [k \in DOMAIN ids |-> df[idxmax(df, ids[k])]]

\* Talent-pool-breakdown.py:108-140
LabelLatest(df, at) ==
    LET latest == latest_rows(df)
        history == ids_with_client_folder_history(df)
        flagged(row) ==
            [CAMPAIGNINVITATIONID |-> row.CAMPAIGNINVITATIONID,
             ACTIVITY_CREATED_AT  |-> row.ACTIVITY_CREATED_AT,
             FOLDER_FROM_TITLE    |-> row.FOLDER_FROM_TITLE,
             FOLDER_TO_TITLE      |-> row.FOLDER_TO_TITLE,
             FAILED_REASON        |-> row.FAILED_REASON,
             in_client_folder     |-> row.CAMPAIGNINVITATIONID \in history]
        labelled(row) ==
            [CAMPAIGNINVITATIONID |-> row.CAMPAIGNINVITATIONID,
             ACTIVITY_CREATED_AT  |-> row.ACTIVITY_CREATED_AT,
             FOLDER_FROM_TITLE    |-> row.FOLDER_FROM_TITLE,
             FOLDER_TO_TITLE      |-> row.FOLDER_TO_TITLE,
             FAILED_REASON        |-> row.FAILED_REASON,
             in_client_folder     |-> row.in_client_folder,
             Row_label            |-> get_row_label(row),
             Column_label         |-> get_time_bucket(row.ACTIVITY_CREATED_AT, at)]
    IN  [k \in DOMAIN latest |-> labelled(flagged(latest[k]))]

\* Talent-pool-breakdown.py:143-146: the left merge of the labels into the filtered rows
MergeLabels(df, latest) ==
    [i \in Indices(df) |->
        LET k == CHOOSE j \in Indices(latest) :
                    latest[j].CAMPAIGNINVITATIONID = df[i].CAMPAIGNINVITATIONID
        IN  [CAMPAIGNINVITATIONID |-> df[i].CAMPAIGNINVITATIONID,
             ACTIVITY_CREATED_AT  |-> df[i].ACTIVITY_CREATED_AT,
             Row_label            |-> latest[k].Row_label,
             Column_label         |-> latest[k].Column_label]]

\* Talent-pool-breakdown.py:158
pivot_data(latest) == SelectRows(latest, [i \in Indices(latest) |-> latest[i].Row_label # None])

\* Talent-pool-breakdown.py:162-167, pd.crosstab(..., aggfunc='nunique'): the distinct
\* ids among the rows of one label and one time band
crosstab_cell(rows, label, band) ==
    Cardinality({ rows[i].CAMPAIGNINVITATIONID :
        i \in { j \in Indices(rows) : rows[j].Row_label = label /\ rows[j].Column_label = band } })

\* Talent-pool-breakdown.py:162-174: the reindexed crosstab, then the 'Grand Total'
\* column (the row sums), then the 'Grand Total' row (the column sums, the new column
\* included)
RECURSIVE SumCells(_, _)
SumCells(f, keys) ==
    IF keys = {} THEN 0
    ELSE LET k == CHOOSE x \in keys : TRUE
         IN  f[k] + SumCells(f, keys \ {k})

Range(seq) == { seq[i] : i \in DOMAIN seq }

PivotTime(rows) ==
    LET reindexed == [l \in Range(row_categories) |->
                        [b \in Range(time_categories) |-> crosstab_cell(rows, l, b)]]
        with_column == [l \in Range(row_categories) |->
                          [b \in Range(time_categories) \cup {"Grand Total"} |->
                              IF b = "Grand Total"
                              THEN SumCells(reindexed[l], Range(time_categories))
                              ELSE reindexed[l][b]]]
    IN  [l \in Range(row_categories) \cup {"Grand Total"} |->
            IF l = "Grand Total"
            THEN [b \in Range(time_categories) \cup {"Grand Total"} |->
                     SumCells([r \in Range(row_categories) |-> with_column[r][b]],
                              Range(row_categories))]
            ELSE with_column[l]]

NoBreakdownWidgets == [start_date |-> 0, end_date |-> 0,
                       selected_sites |-> {}, selected_titles |-> {}]

\* datetime.now() of the renders
Nows == {768}

\* Talent-pool-breakdown.py:296-297: nothing is left after the filters
ShowNoData ==
    /\ tp_pc = "start"
    /\ LoadBreakdown(csv) # <<>>
    /\ \E w \in BreakdownChoices(LoadBreakdown(csv)) :
        /\ tp_widgets' = w
        /\ filtered_tp' = FilterBreakdown(LoadBreakdown(csv), w)
    /\ filtered_tp' = <<>>
    /\ tp_message' = "No data available for the selected filters."
    /\ tp_pc' = "done"
    /\ UNCHANGED <<csv, cp_vars, fn_vars, now, latest_activity, data_for_download,
                   pivot_table_time>>

\* Talent-pool-breakdown.py:107-158, 293-294: labels and download, but no candidate has
\* a label
ShowNoMatch ==
    /\ tp_pc = "start"
    /\ LoadBreakdown(csv) # <<>>
    /\ \E w \in BreakdownChoices(LoadBreakdown(csv)) :
        /\ tp_widgets' = w
        /\ filtered_tp' = FilterBreakdown(LoadBreakdown(csv), w)
    /\ filtered_tp' # <<>>
    /\ now' \in Nows
    /\ latest_activity' = LabelLatest(filtered_tp', now')
    /\ data_for_download' = MergeLabels(filtered_tp', latest_activity')
    /\ pivot_data(latest_activity') = <<>>
    /\ tp_message' = "No candidates matched the breakdown criteria for the selected filters."
    /\ tp_pc' = "done"
    /\ UNCHANGED <<csv, cp_vars, fn_vars, pivot_table_time>>

\* Talent-pool-breakdown.py:107-176: labels, download and the time-band pivot table
ShowBreakdown ==
    /\ tp_pc = "start"
    /\ LoadBreakdown(csv) # <<>>
    /\ \E w \in BreakdownChoices(LoadBreakdown(csv)) :
        /\ tp_widgets' = w
        /\ filtered_tp' = FilterBreakdown(LoadBreakdown(csv), w)
    /\ filtered_tp' # <<>>
    /\ now' \in Nows
    /\ latest_activity' = LabelLatest(filtered_tp', now')
    /\ data_for_download' = MergeLabels(filtered_tp', latest_activity')
    /\ pivot_data(latest_activity') # <<>>
    /\ pivot_table_time' = PivotTime(pivot_data(latest_activity'))
    /\ tp_message' = tp_message
    /\ tp_pc' = "done"
    /\ UNCHANGED <<csv, cp_vars, fn_vars>>

TPInit ==
    /\ tp_pc = "start"
    /\ now = 0
    /\ tp_widgets = NoBreakdownWidgets
    /\ filtered_tp = <<>>
    /\ latest_activity = <<>>
    /\ data_for_download = <<>>
    /\ pivot_table_time = <<>>
    /\ tp_message = "none"

\* folder moves, activity times and rejection reasons of the breakdown runs
TPMoves == { <<NaN, "Talent Pool">>,
             <<"Talent Pool", "Acme Corp">>,
             <<"Acme Corp", "Candidate Databank">>,
             <<"Talent Pool", "Candidate Databank">> }
TPTimes == {0, 744}
TPReasons == {NaN, "Failed client interview"}
TPRows == { CsvRow(c, t, m[1], m[2], r) :
              c \in CandidateIds, t \in TPTimes, m \in TPMoves, r \in TPReasons }

FnInit ==
    /\ call_total_cids = 0
    /\ call_result = <<>>
    /\ probe_date = NaT
    /\ probe_bucket = "pending"

InitBreakdown ==
    /\ csv \in FilesOver(TPRows, MaxRows)
    /\ CPInit
    /\ TPInit
    /\ FnInit

NextBreakdown == ShowNoData \/ ShowNoMatch \/ ShowBreakdown

SpecBreakdown == InitBreakdown /\ [][NextBreakdown]_vars

InitConversions ==
    /\ csv \in FilesOver(CPRows, MaxRows)
    /\ CPInit
    /\ TPInit
    /\ FnInit

NextConversions == StopAtLoad \/ StopAtFilter \/ ShowMetrics

SpecConversions == InitConversions /\ [][NextConversions]_vars

\* the runs that look at idle gaps: one folder move, activity times 2, 5, 7 and 10
\* days apart and one hour more
EngagementTimes == {NaT, 0, 72, 120, 240, 241}
EngagementRows ==
    { CsvRow(1, t, "Inbox", "Talent Pool", NaN) : t \in EngagementTimes }
        \cup { CsvRow(c, t, "Inbox", "Talent Pool", NaN) : c \in {2, NullId}, t \in {0, 240} }

InitEngagement ==
    /\ csv \in FilesOver(EngagementRows, MaxRows + 1)
    /\ CPInit
    /\ TPInit
    /\ FnInit

SpecEngagement == InitEngagement /\ [][NextConversions]_vars

\* the runs that look at stage durations: one candidate moved into the talent pool and
\* on to the shortlist at 0, 3 days and 10 days 17 hours, or to a client folder, and a
\* second candidate with one move
DurationTimes == {NaT, 0, 72, 257}
DurationMoves == { <<"Inbox", "Talent Pool">>, <<"Talent Pool", "Shortlisted">> }
DurationRows ==
    { CsvRow(1, t, m[1], m[2], NaN) : t \in DurationTimes, m \in DurationMoves }
        \cup { CsvRow(1, 72, "Talent Pool", "Acme Corp", NaN),
               CsvRow(2, 0, "Talent Pool", "Shortlisted", NaN) }

InitDurations ==
    /\ csv \in FilesOver(DurationRows, MaxRows + 1)
    /\ CPInit
    /\ TPInit
    /\ FnInit

SpecDurations == InitDurations /\ [][NextConversions]_vars

\* both dashboards over the same export file, each rendered once, in either order
DashboardTimes == {0, 72}
DashboardMoves == { <<"Inbox", "Talent Pool">>, <<"Talent Pool", "Acme Corp">> }
DashboardRows ==
    { CsvRow(c, t, m[1], m[2], NaN) :
        c \in CandidateIds, t \in DashboardTimes, m \in DashboardMoves }

InitDashboards ==
    /\ csv \in FilesOver(DashboardRows, MaxRows)
    /\ CPInit
    /\ TPInit
    /\ FnInit

NextDashboards == NextConversions \/ NextBreakdown

SpecDashboards == InitDashboards /\ [][NextDashboards]_vars

---------------------------------------------------------------------------
(* compute_metric_optimized called on its own, with any total_cids *)

MaxTotal == 3

CallRows ==
    { CsvRow(c, 0, m[1], m[2], NaN) :
        c \in CandidateIds, m \in { <<"Inbox", "Talent Pool">>, <<"Talent Pool", "Shortlisted">> } }

CallMetric ==
    /\ call_result = <<>>
    /\ \E k \in DOMAIN metrics_to_run :
        LET df == LoadConversions(csv)
        IN  call_result' =
                compute_metric_optimized(df, metrics_to_run[k][1], metrics_to_run[k][2],
                    metrics_to_run[k][3], call_total_cids,
                    unengaged_cids_set(df), absolute_start_times(df))
    /\ UNCHANGED <<csv, cp_vars, tp_vars, call_total_cids, probe_date, probe_bucket>>

InitMetricCall ==
    /\ csv \in FilesOver(CallRows, MaxRows)
    /\ CPInit
    /\ TPInit
    /\ call_total_cids \in 0..MaxTotal
    /\ call_result = <<>>
    /\ probe_date = NaT
    /\ probe_bucket = "pending"

NextMetricCall == CallMetric

SpecMetricCall == InitMetricCall /\ [][NextMetricCall]_vars

---------------------------------------------------------------------------
(* get_time_bucket called on its own *)

\* activity dates from MaxAgeDays days before now to one day after it
MaxAgeDays == 33

CallTimeBucket ==
    /\ probe_bucket = "pending"
    /\ probe_bucket' = get_time_bucket(probe_date, now)
    /\ UNCHANGED <<csv, cp_vars, tp_pc, now, tp_widgets, filtered_tp, latest_activity,
                   data_for_download, pivot_table_time, tp_message,
                   call_total_cids, call_result, probe_date>>

InitTimeBucket ==
    /\ csv = <<>>
    /\ CPInit
    /\ tp_pc = "start"
    /\ now = MaxAgeDays * Day
    /\ tp_widgets = NoBreakdownWidgets
    /\ filtered_tp = <<>>
    /\ latest_activity = <<>>
    /\ data_for_download = <<>>
    /\ pivot_table_time = <<>>
    /\ tp_message = "none"
    /\ call_total_cids = 0
    /\ call_result = <<>>
    /\ probe_date \in {NaT} \cup 0..(MaxAgeDays * Day + Day)
    /\ probe_bucket = "pending"

NextTimeBucket == CallTimeBucket

SpecTimeBucket == InitTimeBucket /\ [][NextTimeBucket]_vars

---------------------------------------------------------------------------
(* Properties of the latest-activity classifier and of the time-band pivot,     *)
(* checked under SpecBreakdown                                                  *)

\* the events of candidate cid in the filtered table
EventsOf(cid) == { i \in Indices(filtered_tp) : filtered_tp[i].CAMPAIGNINVITATIONID = cid }

\* candidate cid has an event with a non-null source or destination outside the
\* System Folder Set
HasClientEvent(cid) ==
    \E i \in EventsOf(cid) :
        \/ filtered_tp[i].FOLDER_FROM_TITLE \notin SYSTEM_FOLDERS \cup {NaN}
        \/ filtered_tp[i].FOLDER_TO_TITLE \notin SYSTEM_FOLDERS \cup {NaN}

\* C1: a candidate whose latest row has destination folder 'Candidate Databank' is
\* labelled 'Candidate Databank (in Cooling Period)', whatever its client-folder
\* history and its rejection reason, and so never 'New (for endorsement)' nor
\* 'Rejected (for waterfall)'.
C1_DatabankTakesPriority ==
    \A k \in DOMAIN latest_activity :
        latest_activity[k].FOLDER_TO_TITLE = "Candidate Databank"
            => /\ latest_activity[k].Row_label = "Candidate Databank (in Cooling Period)"
               /\ latest_activity[k].Row_label \notin
                      {"New (for endorsement)", "Rejected (for waterfall)"}

\* a databank candidate that has client-folder history and a rejection reason, the
\* case the third branch would otherwise claim
C1_Witness ==
    \E k \in DOMAIN latest_activity :
        /\ latest_activity[k].FOLDER_TO_TITLE = "Candidate Databank"
        /\ latest_activity[k].in_client_folder
        /\ latest_activity[k].FAILED_REASON # NaN
        /\ latest_activity[k].Row_label = "Candidate Databank (in Cooling Period)"

C3_NewForEndorsementExactly ==
    tp_pc = "done" /\ filtered_tp # <<>> =>
        /\ \A cid \in UniqueIds(filtered_tp) :
              Cardinality({ k \in DOMAIN latest_activity :
                              latest_activity[k].CAMPAIGNINVITATIONID = cid }) = 1
        /\ \A k \in DOMAIN latest_activity :
              LET row == latest_activity[k]
              IN  /\ \E i \in EventsOf(row.CAMPAIGNINVITATIONID) :
                        /\ filtered_tp[i].ACTIVITY_CREATED_AT = row.ACTIVITY_CREATED_AT
                        /\ filtered_tp[i].FOLDER_FROM_TITLE = row.FOLDER_FROM_TITLE
                        /\ filtered_tp[i].FOLDER_TO_TITLE = row.FOLDER_TO_TITLE
                        /\ filtered_tp[i].FAILED_REASON = row.FAILED_REASON
                  /\ \A i \in EventsOf(row.CAMPAIGNINVITATIONID) :
                        filtered_tp[i].ACTIVITY_CREATED_AT <= row.ACTIVITY_CREATED_AT
                  /\ row.Row_label = "New (for endorsement)"
                        <=> /\ row.FOLDER_TO_TITLE = "Talent Pool"
                            /\ row.FAILED_REASON = NaN
                            /\ ~HasClientEvent(row.CAMPAIGNINVITATIONID)

\* a candidate whose latest row alone would make it new (Talent Pool, no reason, system
\* folders) but that touched a client folder in an earlier event
C3_Witness ==
    \E k \in DOMAIN latest_activity :
        LET row == latest_activity[k]
        IN  /\ row.FOLDER_TO_TITLE = "Talent Pool"
            /\ row.FAILED_REASON = NaN
            /\ row.FOLDER_FROM_TITLE \in SYSTEM_FOLDERS \cup {NaN}
            /\ HasClientEvent(row.CAMPAIGNINVITATIONID)
            /\ row.Row_label = None

\* the distinct candidates that carry label in the exported rows
CandidatesLabelled(label) ==
    { data_for_download[i].CAMPAIGNINVITATIONID :
        i \in { j \in DOMAIN data_for_download : data_for_download[j].Row_label = label } }

PivotShown == tp_pc = "done" /\ tp_message = "none"

\* C9: in the time-band pivot table each label's cells over the six time bands add up
\* to the number of distinct candidates carrying that label and to the row's 'Grand
\* Total' cell, and the 'Grand Total' row is the column-wise sum of the three label
\* rows.
C9_PivotTotals ==
    PivotShown =>
        /\ \A l \in Range(row_categories) :
              /\ SumCells(pivot_table_time[l], Range(time_categories))
                    = Cardinality(CandidatesLabelled(l))
              /\ pivot_table_time[l]["Grand Total"] = Cardinality(CandidatesLabelled(l))
        /\ \A b \in Range(time_categories) \cup {"Grand Total"} :
              pivot_table_time["Grand Total"][b]
                  = pivot_table_time[row_categories[1]][b]
                      + pivot_table_time[row_categories[2]][b]
                      + pivot_table_time[row_categories[3]][b]

\* a pivot table of two candidates with different labels in different time bands, one
\* of them with an older event in another band
C9_Witness ==
    /\ PivotShown
    /\ pivot_table_time["Grand Total"]["Grand Total"] = 2
    /\ \E l1, l2 \in Range(row_categories) : \E b1, b2 \in Range(time_categories) :
          /\ l1 # l2 /\ b1 # b2
          /\ pivot_table_time[l1][b1] = 1
          /\ pivot_table_time[l2][b2] = 1


---------------------------------------------------------------------------
(* The conversions claims *)

\* the distinct candidate identifiers of the filtered table
FilteredIdentifiers ==
    { cp_filtered[i].CAMPAIGNINVITATIONID : i \in Indices(cp_filtered) } \ {NullId}

\* C4: for every transition metric computed over the filtered event table, with
\* total_cids the number of distinct candidate identifiers of that table, the reported
\* Count is less than or equal to total_cids.
C4_CountAtMostTotal ==
    \A k \in DOMAIN summary_data :
        /\ metric_frames[k].total_cids = Cardinality(FilteredIdentifiers)
        /\ summary_data[k].Count <= metric_frames[k].total_cids

\* h hundredths written with two decimals
TwoDecimals(h) ==
    ToString(h \div 100) \o "." \o ToString((h % 100) \div 10) \o ToString(h % 10)

Abs(x) == IF x < 0 THEN -x ELSE x

\* C5: the reported percentage is count / total_cids * 100 rounded to two decimals,
\* that is the two-decimal number h/100 nearest to it (no other is nearer), and it is
\* "0.00" when total_cids is 0.
C5_PercentageTwoDecimals ==
    call_result # <<>> =>
        IF call_total_cids = 0
        THEN call_result.Percentage = "0.00"
        ELSE LET q == (call_result.Count * 10000) \div call_total_cids
             IN  \E h \in {q, q + 1} :
                    /\ 2 * Abs(call_result.Count * 10000 - h * call_total_cids)
                           <= call_total_cids
                    /\ call_result.Percentage = TwoDecimals(h)

\* two of three candidates: 66.666... is reported as 66.67
C5_Witness ==
    /\ call_result # <<>>
    /\ call_total_cids = 3
    /\ call_result.Count = 2
    /\ call_result.Percentage = "66.67"

\* candidate cid has two events, consecutive in time, more than 7 days apart
IdleOverSevenDays(cid) ==
    \E t1, t2 \in TimesOf(cp_filtered, cid) :
        /\ t1 < t2
        /\ ~\E t \in TimesOf(cp_filtered, cid) : t1 < t /\ t < t2
        /\ t2 - t1 > 7 * Day

\* C6: a candidate is in the unengaged set if and only if, with its events sorted by
\* timestamp, some two consecutive events of that candidate are strictly more than 7
\* days apart; a gap between the events of two candidates marks nobody.  A candidate
\* with two events 10 days apart is unengaged, one with two events 5 days apart is not.
C6_UnengagedExactly ==
    cp_pc = "done" =>
        /\ cp_precalc.unengaged_cids_set =
               { cid \in FilteredIdentifiers : IdleOverSevenDays(cid) }
        /\ \A cid \in FilteredIdentifiers :
              /\ (\E t \in TimesOf(cp_filtered, cid) :
                      TimesOf(cp_filtered, cid) = {t, t + 10 * Day})
                     => cid \in cp_precalc.unengaged_cids_set
              /\ (\E t \in TimesOf(cp_filtered, cid) :
                      TimesOf(cp_filtered, cid) = {t, t + 5 * Day})
                     => cid \notin cp_precalc.unengaged_cids_set

\* the only event of candidate 1 and every event of candidate 2, which follows it in
\* the sorted table, are more than 7 days apart, and nobody is unengaged
C6_Witness ==
    /\ cp_pc = "done"
    /\ TimesOf(cp_filtered, 1) = {0}
    /\ TimesOf(cp_filtered, 2) # {}
    /\ \A t \in TimesOf(cp_filtered, 2) : t - 0 > 7 * Day
    /\ cp_precalc.unengaged_cids_set = {}

\* the System Folder Set, normalized
NormalizedSystemFolders == { StrLower(StrStrip(f)) : f \in SYSTEM_FOLDERS_CONVERSIONS }

\* the normalized folder clean matches the stage
MatchesStage(clean, stage) ==
    IF stage = "client folder"
    THEN clean # "" /\ clean \notin NormalizedSystemFolders
    ELSE clean = stage

\* the timestamps of candidate cid's events whose destination matches the stage
TimesInto(cid, stage) ==
    { cp_filtered[i].ACTIVITY_CREATED_AT :
        i \in { j \in Indices(cp_filtered) :
                  /\ cp_filtered[j].CAMPAIGNINVITATIONID = cid
                  /\ cp_filtered[j].ACTIVITY_CREATED_AT # NaT
                  /\ MatchesStage(CleanTitle(cp_filtered[j].FOLDER_TO_TITLE), stage) } }

\* one candidate moved from Inbox to Talent Pool at 0 and to Shortlisted 3 days later
ThreeDayExample ==
    LoadConversions(<< CsvRow(1, 0, "Inbox", "Talent Pool", NaN),
                       CsvRow(1, 3 * Day, "Talent Pool", "Shortlisted", NaN) >>)

\* C7: in a stage-A-to-stage-B metric (from-condition not 'any') a transitioning
\* candidate has a duration exactly when it has an event into A and a later or
\* simultaneous one into B, and the duration is the number of whole days from its
\* latest event into A to its latest event into B.  For the three-day example the
\* metric ('Talent Pool', 'Shortlisted') reports Count = 1 and average time "3.0".
C7_StageDurations ==
    /\ \A k \in DOMAIN metric_frames :
          LET f == metric_frames[k]
          IN  f.from_cond_lower # "any" =>
                \A cid \in f.cids_with_transition \ {NullId} :
                    LET into_a == TimesInto(cid, f.from_cond_lower)
                        into_b == TimesInto(cid, f.to_cond_lower)
                    IN  IF into_a # {} /\ into_b # {} /\ SetMax(into_b) >= SetMax(into_a)
                        THEN /\ cid \in DOMAIN f.avg_durations
                             /\ f.avg_durations[cid] * Day <= SetMax(into_b) - SetMax(into_a)
                             /\ SetMax(into_b) - SetMax(into_a)
                                    < (f.avg_durations[cid] + 1) * Day
                        ELSE cid \notin DOMAIN f.avg_durations
    /\ (cp_pc = "done" /\ cp_filtered = ThreeDayExample) =>
          /\ summary_data[9].Metric = "Talent Pool to Shortlisted"
          /\ summary_data[9].Count = 1
          /\ summary_data[9].Avg_Time_In_Days = "3.0"

\* the three-day example has been computed
C7_Witness ==
    /\ cp_pc = "done"
    /\ cp_filtered = ThreeDayExample
    /\ metric_frames[9].avg_durations = (1 :> 3)
    /\ summary_data[9].Avg_Time_In_Days = "3.0"

\* the start or the end time of cid in the call is missing, or the end is before the start
DurationDiscarded(f, cid) ==
    \/ DictGet(f.from_times_per_cid, cid) = NaT
    \/ DictGet(f.to_times_per_cid, cid) = NaT
    \/ DictGet(f.to_times_per_cid, cid) < DictGet(f.from_times_per_cid, cid)

\* C8: a transitioning candidate whose end time is earlier than its start time, or
\* one of whose times is missing, has no duration in either average and is still
\* counted in Count; an average with no duration left is reported as "N/A", any other
\* as a number.
C8_InvalidDurationsExcluded ==
    \A k \in DOMAIN metric_frames :
        LET f == metric_frames[k]
            kept == { cid \in f.cids_with_transition : ~DurationDiscarded(f, cid) }
        IN  /\ DOMAIN f.avg_durations = kept
            /\ DOMAIN f.avg_time_threshold_durations = kept \ f.unengaged_in_this_metric
            /\ summary_data[k].Count = Cardinality(f.cids_with_transition)
            /\ (summary_data[k].Avg_Time_In_Days = "N/A") <=> (kept = {})
            /\ (summary_data[k].Avg_Time_Threshold = "N/A")
                   <=> (kept \ f.unengaged_in_this_metric = {})

\* a candidate shortlisted before its move into the talent pool: counted, no duration,
\* "N/A"
C8_Witness ==
    \E k \in DOMAIN metric_frames :
        LET f == metric_frames[k]
        IN  /\ f.cids_with_transition = {1}
            /\ DictGet(f.from_times_per_cid, 1) # NaT
            /\ DictGet(f.to_times_per_cid, 1) # NaT
            /\ DictGet(f.to_times_per_cid, 1) < DictGet(f.from_times_per_cid, 1)
            /\ summary_data[k].Count = 1
            /\ summary_data[k].Avg_Time_In_Days = "N/A"

---------------------------------------------------------------------------
(* The time-band claim *)

\* the band of an age of d whole elapsed days
BandOfDays(d) ==
    IF d < 1 THEN "<24hrs"
    ELSE IF d \in 1..3 THEN "1-3 days"
    ELSE IF d \in 4..7 THEN "4-7 days"
    ELSE IF d \in 8..15 THEN "8-15 days"
    ELSE IF d \in 16..30 THEN "16-30 days"
    ELSE "31+ days"

\* C10: get_time_bucket gives a non-null timestamp exactly one of the six bands, the
\* one of its age in whole elapsed days d (d days have passed, d + 1 have not): d < 1
\* '<24hrs', 1..3 '1-3 days', 4..7 '4-7 days', 8..15 '8-15 days', 16..30 '16-30 days',
\* d >= 31 '31+ days'; a timestamp exactly 24 hours old is in '1-3 days'.
C10_BandsByWholeDays ==
    (probe_bucket # "pending" /\ probe_date # NaT) =>
        /\ Cardinality({ b \in DOMAIN time_categories :
                           time_categories[b] = probe_bucket }) = 1
        /\ \E d \in -1..(MaxAgeDays + 1) :
              /\ d * Day <= now - probe_date
              /\ now - probe_date < (d + 1) * Day
              /\ probe_bucket = BandOfDays(d)
        /\ (now - probe_date = Day) => probe_bucket = "1-3 days"

\* a timestamp exactly 24 hours old has its band
C10_Witness ==
    /\ now - probe_date = Day
    /\ probe_date # NaT
    /\ probe_bucket = "1-3 days"


---------------------------------------------------------------------------
(* The transition claims *)

\* the rows of candidate cid in the filtered table
RowsOf(cid) == { i \in Indices(cp_filtered) : cp_filtered[i].CAMPAIGNINVITATIONID = cid }

\* a source folder, raw and normalized, satisfies the from-condition
SourceSatisfies(raw, clean, from_cond) ==
    IF from_cond = "any" THEN raw # NaN ELSE MatchesStage(clean, from_cond)

\* C11: a candidate of the filtered table is counted in a transition metric if and
\* only if one single row of that candidate satisfies the from-condition on its source
\* folder and the to-condition on its destination folder ('any': a non-null source;
\* 'client folder': a normalized folder that is non-empty and no system folder; any
\* other literal: that normalized name); one row for each condition is not enough.
C11_CountedIffOneRowMatchesBoth ==
    LET source == [i \in Indices(cp_filtered) |-> CleanTitle(cp_filtered[i].FOLDER_FROM_TITLE)]
        destination ==
            [i \in Indices(cp_filtered) |-> CleanTitle(cp_filtered[i].FOLDER_TO_TITLE)]
    IN  \A k \in DOMAIN metric_frames :
            LET f == metric_frames[k]
            IN  /\ f.from_cond_lower \in {"any", "passed mq", "talent pool", "client folder",
                                          "shortlisted"}
                /\ \A cid \in FilteredIdentifiers :
                      cid \in f.cids_with_transition
                          <=> \E i \in RowsOf(cid) :
                                 /\ SourceSatisfies(cp_filtered[i].FOLDER_FROM_TITLE,
                                                    source[i], f.from_cond_lower)
                                 /\ MatchesStage(destination[i], f.to_cond_lower)

\* a candidate with one row out of the talent pool and another row into the shortlist,
\* but no row that is both, is not counted in 'Talent Pool to Shortlisted'
C11_Witness ==
    /\ cp_pc = "done"
    /\ 1 \in FilteredIdentifiers
    /\ metric_frames[9].from_cond_lower = "talent pool"
    /\ metric_frames[9].to_cond_lower = "shortlisted"
    /\ \E i \in RowsOf(1) : CleanTitle(cp_filtered[i].FOLDER_FROM_TITLE) = "talent pool"
    /\ \E i \in RowsOf(1) : CleanTitle(cp_filtered[i].FOLDER_TO_TITLE) = "shortlisted"
    /\ 1 \notin metric_frames[9].cids_with_transition
    /\ summary_data[9].Count = 0


---------------------------------------------------------------------------
(* The empty-table claim *)

\* the conversions render got as far as the filters and they left no row
ConversionsEmptyAfterFilters ==
    /\ cp_pc # "start"
    /\ cp_original # <<>>
    /\ valid_invitation_dates(cp_original) # {}
    /\ cp_filtered = <<>>

\* the breakdown render got as far as the filters and they left no row
BreakdownEmptyAfterFilters ==
    /\ tp_pc # "start"
    /\ filtered_tp = <<>>

\* C12: in both dashboards a render whose filters leave no event row shows its
\* warning and computes nothing more: no pre-calculation and no metric in the
\* conversions dashboard, no label, no download and no pivot table in the breakdown.
C12_EmptyAfterFiltersStops ==
    /\ ConversionsEmptyAfterFilters =>
          /\ cp_pc = "stopped"
          /\ cp_message = "No data matches the current filter criteria."
          /\ cp_precalc = NoPrecalc
          /\ summary_data = <<>>
          /\ metric_frames = <<>>
    /\ BreakdownEmptyAfterFilters =>
          /\ tp_message = "No data available for the selected filters."
          /\ latest_activity = <<>>
          /\ data_for_download = <<>>
          /\ pivot_table_time = <<>>

\* both dashboards have rendered a file that has rows with filters that leave none
C12_Witness ==
    /\ csv # <<>>
    /\ ConversionsEmptyAfterFilters
    /\ cp_message = "No data matches the current filter criteria."
    /\ BreakdownEmptyAfterFilters
    /\ tp_message = "No data available for the selected filters."


---------------------------------------------------------------------------
(* The engagement split *)

\* h tenths written with one decimal
OneDecimal(h) == ToString(h \div 10) \o "." \o ToString(h % 10)

\* C13: in every metric the transitioning candidates are split into the unengaged
\* ones (those in the precomputed unengaged set) and the engaged ones (the rest):
\* the two sets are disjoint, 'Unengaged Candidates Count' is the size of the first
\* and at most Count, the two sizes add up to Count, and 'Avg Time(Threshold)' is the
\* average of the durations of the engaged candidates alone ("N/A" without any).
C13_EngagedUnengagedSplit ==
    \A k \in DOMAIN metric_frames :
        LET f == metric_frames[k]
            r == summary_data[k]
            unengaged == f.cids_with_transition \cap cp_precalc.unengaged_cids_set
            engaged   == f.cids_with_transition \ cp_precalc.unengaged_cids_set
            timed     == DOMAIN f.avg_durations \cap engaged
            total     == SumOf([cid \in timed |-> f.avg_durations[cid]])
        IN  /\ f.unengaged_in_this_metric = unengaged
            /\ f.engaged_in_this_metric = engaged
            /\ unengaged \cap engaged = {}
            /\ r.Unengaged_Candidates_Count = Cardinality(unengaged)
            /\ r.Unengaged_Candidates_Count <= r.Count
            /\ Cardinality(unengaged) + Cardinality(engaged) = r.Count
            /\ IF timed = {}
               THEN r.Avg_Time_Threshold = "N/A"
               ELSE \E h \in {(total * 10) \div Cardinality(timed),
                              (total * 10) \div Cardinality(timed) + 1} :
                       /\ 2 * Abs(total * 10 - h * Cardinality(timed)) <= Cardinality(timed)
                       /\ r.Avg_Time_Threshold = OneDecimal(h)

\* a metric with an unengaged and an engaged candidate, both with a duration: the
\* threshold average leaves the unengaged one out and differs from the overall one
C13_Witness ==
    \E k \in DOMAIN metric_frames :
        /\ metric_frames[k].unengaged_in_this_metric = {1}
        /\ metric_frames[k].engaged_in_this_metric = {2}
        /\ DOMAIN metric_frames[k].avg_durations = {1, 2}
        /\ summary_data[k].Unengaged_Candidates_Count = 1
        /\ summary_data[k].Count = 2
        /\ summary_data[k].Avg_Time_Threshold # "N/A"
        /\ summary_data[k].Avg_Time_Threshold # summary_data[k].Avg_Time_In_Days


---------------------------------------------------------------------------
(* The 'any' metrics *)

\* the earliest timestamp among all events of candidate cid in the filtered table,
\* NaT when none of them has one
EarliestEvent(cid) ==
    IF TimesOf(cp_filtered, cid) = {} THEN NaT
    ELSE CHOOSE t \in TimesOf(cp_filtered, cid) : \A u \in TimesOf(cp_filtered, cid) : t <= u

\* C14: in every metric whose from-condition is 'any' the start time of a candidate is
\* its earliest event timestamp over the whole filtered table; a transitioning
\* candidate whose start and end times are not missing never has its end before its
\* start, so its duration is kept, and every reported duration is a number of days
\* that is not negative.
C14_AnyStartsAtEarliestEvent ==
    \A k \in DOMAIN metric_frames :
        LET f == metric_frames[k]
        IN  f.from_cond_lower = "any" =>
              /\ \A cid \in f.cids_with_transition \ {NullId} :
                    /\ DictGet(f.from_times_per_cid, cid) = EarliestEvent(cid)
                    /\ (EarliestEvent(cid) # NaT /\ DictGet(f.to_times_per_cid, cid) # NaT) =>
                          /\ DictGet(f.to_times_per_cid, cid) >= EarliestEvent(cid)
                          /\ cid \in DOMAIN f.avg_durations
              /\ \A cid \in DOMAIN f.avg_durations : f.avg_durations[cid] >= 0

\* candidate 1 was shortlisted at 0 and moved into the talent pool 3 days later: the
\* application-to-talent-pool duration starts at the earlier event and is 3 days
C14_Witness ==
    \E k \in DOMAIN metric_frames :
        /\ metric_frames[k].from_cond_lower = "any"
        /\ metric_frames[k].to_cond_lower = "talent pool"
        /\ 1 \in metric_frames[k].cids_with_transition
        /\ TimesInto(1, "talent pool") = {3 * Day}
        /\ EarliestEvent(1) = 0
        /\ metric_frames[k].avg_durations[1] = 3
        /\ summary_data[k].Avg_Time_In_Days = "3.0"

=============================================================================
